---- MODULE Spec2Model ----
(***************************************************************************)
(* Model of the YouTube Downloader API (no-fluke/ytdownloader).            *)
(*                                                                         *)
(* The repository holds two snapshots of the same express application:     *)
(*   "idx"  - src/index.js            (routes /, /extract, /search,        *)
(*                                     /details)                           *)
(*   "p0"   - src/unnamed/part_000    (version 2.0.0; adds /bulk-extract)  *)
(* Both are modelled; a request is served by one of them.                  *)
(*                                                                         *)
(* JavaScript strings are sequences of one-character strings, so that      *)
(* String.prototype.includes, the regular expression /(\d+)p/, parseInt,   *)
(* split and trim are computed, not assumed.  The value `undefined` of a   *)
(* string-valued property is the sentinel Undefined.                       *)
(***************************************************************************)
EXTENDS Integers, Sequences, FiniteSets, TLC

\* ------------------------------------------------------------------------
\* Bounds of the model
\* ------------------------------------------------------------------------
MaxFormats == 3      \* longest format list given to formatVideoData
MaxUrlsLen == 5      \* longest `urls` query string, in symbols
MaxVideos  == 12     \* most videos the search client returns

\* ------------------------------------------------------------------------
\* JavaScript values
\* ------------------------------------------------------------------------
Undefined == <<"undefined-value">>
NullSize == -1

Digits == {"0","1","2","3","4","5","6","7","8","9"}

DigitVal(c) ==
  CASE c = "0" -> 0 [] c = "1" -> 1 [] c = "2" -> 2 [] c = "3" -> 3
    [] c = "4" -> 4 [] c = "5" -> 5 [] c = "6" -> 6 [] c = "7" -> 7
    [] c = "8" -> 8 [] c = "9" -> 9

\* a value used as a condition: undefined and '' are falsy
Truthy(v) == v # Undefined /\ v # <<>>

\* a || b
OrElse(a, b) == IF Truthy(a) THEN a ELSE b

\* String.prototype.includes
Includes(s, t) ==
  \E k \in 0..(Len(s) - Len(t)) : SubSeq(s, k + 1, k + Len(t)) = t

\* s?.includes(t): undefined when s is undefined, which is falsy
OptIncludes(s, t) == s # Undefined /\ Includes(s, t)

RECURSIVE DigitsValue(_)
DigitsValue(s) ==
  IF s = <<>> THEN 0
  ELSE 10 * DigitsValue(SubSeq(s, 1, Len(s) - 1)) + DigitVal(s[Len(s)])

\* length of the longest run of digits of s that starts at position i
RECURSIVE DigitRun(_, _)
DigitRun(s, i) ==
  IF i > Len(s) \/ s[i] \notin Digits THEN 0 ELSE 1 + DigitRun(s, i + 1)

RECURSIVE LeadingSpaces(_)
LeadingSpaces(s) ==
  IF s = <<>> \/ s[1] # " " THEN 0 ELSE 1 + LeadingSpaces(Tail(s))

\* parseInt(s): leading white space, an optional sign, then the longest
\* prefix of digits; NaN when there is no digit
parseInt(s) ==
  LET a    == LeadingSpaces(s) + 1
      neg  == a <= Len(s) /\ s[a] = "-"
      b    == IF a <= Len(s) /\ s[a] \in {"-", "+"} THEN a + 1 ELSE a
      n    == DigitRun(s, b)
      v    == DigitsValue(SubSeq(s, b, b + n - 1))
  IN IF n = 0 THEN [nan |-> TRUE, val |-> 0]
     ELSE [nan |-> FALSE, val |-> IF neg THEN 0 - v ELSE v]

\* Array.prototype.slice(0, end) with end = parseInt(...)
SliceTo(arr, end) ==
  LET n == Len(arr)
      k == IF end.nan THEN 0
           ELSE IF end.val < 0 THEN (IF n + end.val < 0 THEN 0 ELSE n + end.val)
           ELSE IF end.val > n THEN n ELSE end.val
  IN SubSeq(arr, 1, k)

\* ------------------------------------------------------------------------
\* String literals of the source
\* ------------------------------------------------------------------------
VideoUnavailable == <<"V","i","d","e","o"," ","u","n","a","v","a","i","l","a","b","l","e">>
SignInToConfirm == <<"S","i","g","n"," ","i","n"," ","t","o"," ","c","o","n","f","i","r","m">>
Mp4 == <<"m","p","4">>
Webm == <<"w","e","b","m">>
AudioSlashMp4 == <<"a","u","d","i","o","/","m","p","4">>
Unknown == <<"u","n","k","n","o","w","n">>
UnknownAuthor == <<"U","n","k","n","o","w","n">>
AudioLabel == <<"a","u","d","i","o">>
ExpiresInSeconds == <<"2","1","5","4","0">>
TenStr == <<"1","0">>

\* the message of the TypeError raised on reading a property of undefined
MsgTypeError == <<"T","y","p","e","E","r","r","o","r">>

\* ------------------------------------------------------------------------
\* formatVideoData
\* ------------------------------------------------------------------------
Threw(m) == [threw |-> TRUE, message |-> m, value |-> [none |-> TRUE]]
Returned(v) == [threw |-> FALSE, message |-> <<>>, value |-> v]

\* contentLength ? parseInt(contentLength) : null
fileSize(format) ==
  IF Truthy(format.contentLength) THEN parseInt(format.contentLength).val
  ELSE NullSize

\* const match = quality.match(/(\d+)p/); match ? parseInt(match[1]) : 0
\* The leftmost match starts at the first digit of the first run of digits
\* that is directly followed by "p".
getQualityNum(quality) ==
  LET starts == {i \in 1..Len(quality) :
                   /\ quality[i] \in Digits
                   /\ i + DigitRun(quality, i) <= Len(quality)
                   /\ quality[i + DigitRun(quality, i)] = "p"}
  IN IF starts = {} THEN 0
     ELSE LET i == CHOOSE j \in starts : \A k \in starts : j <= k
          IN parseInt(SubSeq(quality, i, i + DigitRun(quality, i) - 1)).val

\* the comparator of the sort: getQualityNum(b.quality) - getQualityNum(a.quality)
compareQuality(a, b) == getQualityNum(b.quality) - getQualityNum(a.quality)

\* insertion of x behind every element that does not compare after it
RECURSIVE InsertStable(_, _)
InsertStable(sorted, x) ==
  IF sorted = <<>> THEN <<x>>
  ELSE IF compareQuality(Head(sorted), x) <= 0
       THEN <<Head(sorted)>> \o InsertStable(Tail(sorted), x)
       ELSE <<x>> \o sorted

\* a sort that puts an element before the earlier elements it ties with
RECURSIVE sortByQualityUnstable(_)
sortByQualityUnstable(arr) ==
  IF arr = <<>> THEN <<>>
  ELSE LET rest == sortByQualityUnstable(SubSeq(arr, 1, Len(arr) - 1))
           x == arr[Len(arr)]
           RECURSIVE Ins(_)
           Ins(s) == IF s = <<>> THEN <<x>>
                     ELSE IF compareQuality(Head(s), x) < 0
                          THEN <<Head(s)>> \o Ins(Tail(s))
                          ELSE <<x>> \o s
       IN Ins(rest)

\* Array.prototype.sort with compareQuality: a stable sort (ECMAScript 2019)
RECURSIVE sortByQuality(_)
sortByQuality(arr) ==
  IF arr = <<>> THEN <<>>
  ELSE InsertStable(sortByQuality(SubSeq(arr, 1, Len(arr) - 1)), arr[Len(arr)])

IsVideoP0(format) == format.hasVideo
IsAudioOnly(format) == format.hasAudio /\ ~format.hasVideo
IsVideoOnly(format) == format.hasVideo /\ ~format.hasAudio
IsCombined(format) == format.hasVideo /\ format.hasAudio

RECURSIVE MapVideoP0(_)
MapVideoP0(arr) ==
  IF arr = <<>> THEN <<>>
  ELSE LET format == Head(arr)
       IN <<[quality   |-> OrElse(OrElse(format.qualityLabel, format.quality), Unknown),
             url       |-> format.url,
             mimeType  |-> format.mimeType,
             hasAudio  |-> format.hasAudio,
             fileSize  |-> fileSize(format),
             container |-> format.container,
             codecs    |-> format.codecs]>> \o MapVideoP0(Tail(arr))

RECURSIVE MapAudio(_)
MapAudio(arr) ==
  IF arr = <<>> THEN <<>>
  ELSE LET format == Head(arr)
       IN <<[quality   |-> OrElse(format.audioQuality, AudioLabel),
             url       |-> format.url,
             mimeType  |-> format.mimeType,
             hasAudio  |-> TRUE,
             fileSize  |-> fileSize(format),
             container |-> format.container]>> \o MapAudio(Tail(arr))

RECURSIVE MapVideoIdx(_)
MapVideoIdx(arr) ==
  IF arr = <<>> THEN <<>>
  ELSE LET format == Head(arr)
       IN <<[quality   |-> OrElse(format.qualityLabel, format.quality),
             url       |-> format.url,
             mimeType  |-> format.mimeType,
             hasAudio  |-> format.hasAudio,
             fileSize  |-> fileSize(format),
             container |-> format.container]>> \o MapVideoIdx(Tail(arr))

\* f.container === 'mp4' || f.mimeType?.includes('mp4')
InMp4P0(f) == f.container = Mp4 \/ OptIncludes(f.mimeType, Mp4)
InWebmP0(f) == f.container = Webm \/ OptIncludes(f.mimeType, Webm)

videoFormatsP0(formats) == sortByQuality(MapVideoP0(SelectSeq(formats, IsVideoP0)))

\* an audio filter of `format.hasAudio` alone, which also takes combined formats
audioFormatsWithCombined(formats) ==
  MapAudio(SelectSeq(formats, LAMBDA format : format.hasAudio))

audioFormats(formats) == MapAudio(SelectSeq(formats, IsAudioOnly))

\* formatVideoData of src/unnamed/part_000
formatVideoData(videoInfo, formats) ==
  IF ~formats.defined THEN Threw(MsgTypeError)
  ELSE IF ~videoInfo.videoDetails.thumbnails.defined THEN Threw(MsgTypeError)
  ELSE
    LET vf == videoFormatsP0(formats.items)
        af == audioFormats(formats.items)
        th == videoInfo.videoDetails.thumbnails.items
    IN Returned(
        [title            |-> videoInfo.videoDetails.title,
         image            |-> IF th = <<>> THEN Undefined ELSE th[Len(th)],
         description      |-> videoInfo.videoDetails.description,
         lengthSeconds    |-> videoInfo.videoDetails.lengthSeconds,
         author           |-> IF videoInfo.videoDetails.author.defined
                              THEN OrElse(videoInfo.videoDetails.author.name, UnknownAuthor)
                              ELSE UnknownAuthor,
         viewCount        |-> videoInfo.videoDetails.viewCount,
         expiresInSeconds |-> ExpiresInSeconds,
         format_options   |->
           [video |-> [mp4 |-> SelectSeq(vf, InMp4P0), webm |-> SelectSeq(vf, InWebmP0)],
            audio |-> [mp3 |-> SelectSeq(af, InMp4P0), webm |-> SelectSeq(af, InWebmP0)]]])

\* index.js: f.container === 'mp4' || f.mimeType.includes('audio/mp4')
\* throws when the container is not mp4 and mimeType is undefined
AudioMp3ThrowsIdx(f) == f.container # Mp4 /\ f.mimeType = Undefined
InMp3Idx(f) == f.container = Mp4 \/ Includes(f.mimeType, AudioSlashMp4)

\* formatVideoData of src/index.js
formatVideoDataIdx(videoInfo, formats) ==
  IF ~formats.defined THEN Threw(MsgTypeError)
  ELSE
    LET vf == MapVideoIdx(SelectSeq(formats.items, IsVideoOnly))
        af == audioFormats(formats.items)
        cf == MapVideoIdx(SelectSeq(formats.items, IsCombined))
        th == videoInfo.videoDetails.thumbnails
    IN IF ~th.defined \/ th.items = <<>> THEN Threw(MsgTypeError)
       ELSE IF ~videoInfo.videoDetails.author.defined THEN Threw(MsgTypeError)
       ELSE IF \E k \in 1..Len(af) : AudioMp3ThrowsIdx(af[k]) THEN Threw(MsgTypeError)
       ELSE Returned(
        [title            |-> videoInfo.videoDetails.title,
         image            |-> th.items[Len(th.items)],
         description      |-> videoInfo.videoDetails.description,
         lengthSeconds    |-> videoInfo.videoDetails.lengthSeconds,
         author           |-> videoInfo.videoDetails.author.name,
         format_options   |->
           [video |-> [mp4  |-> SelectSeq(vf \o cf, LAMBDA f : f.container = Mp4),
                       webm |-> SelectSeq(vf \o cf, LAMBDA f : f.container = Webm)],
            audio |-> [mp3  |-> SelectSeq(af, InMp3Idx),
                       webm |-> SelectSeq(af, LAMBDA f : f.container = Webm)]]])

\* ------------------------------------------------------------------------
\* Values the external libraries can hand to the program
\* ------------------------------------------------------------------------
\* stream formats as ytdl-core reports them (videoInfo.formats entries)
F1 ==
  [url |-> <<"u","1">>, hasVideo |-> TRUE, hasAudio |-> FALSE,
   qualityLabel |-> <<"1","0","8","0","p">>, quality |-> <<"h","d","1","0","8","0">>,
   audioQuality |-> Undefined, mimeType |-> <<"v","i","d","e","o","/","m","p","4">>,
   container |-> <<"m","p","4">>, contentLength |-> <<"9","0","0">>, codecs |-> <<"a","v","c","1">>]

F2 ==
  [url |-> <<"u","2">>, hasVideo |-> TRUE, hasAudio |-> TRUE,
   qualityLabel |-> <<"7","2","0","p">>, quality |-> <<"h","d","7","2","0">>,
   audioQuality |-> <<"M","E","D","I","U","M">>, mimeType |-> <<"v","i","d","e","o","/","m","p","4">>,
   container |-> <<"m","p","4">>, contentLength |-> <<"7","0","0">>, codecs |-> <<"a","v","c","1">>]

F3 ==
  [url |-> <<"u","3">>, hasVideo |-> TRUE, hasAudio |-> FALSE,
   qualityLabel |-> <<"7","2","0","p","6","0">>, quality |-> <<"h","d","7","2","0">>,
   audioQuality |-> Undefined, mimeType |-> <<"v","i","d","e","o","/","m","p","4">>,
   container |-> <<"m","p","4">>, contentLength |-> <<"8","0","0">>, codecs |-> <<"a","v","0","1">>]

F4 ==
  [url |-> <<"u","4">>, hasVideo |-> TRUE, hasAudio |-> FALSE,
   qualityLabel |-> <<"7","2","0","p">>, quality |-> <<"h","d","7","2","0">>,
   audioQuality |-> Undefined, mimeType |-> <<"v","i","d","e","o","/","w","e","b","m">>,
   container |-> <<"w","e","b","m">>, contentLength |-> Undefined, codecs |-> <<"v","p","9">>]

F5 ==
  [url |-> <<"u","5">>, hasVideo |-> FALSE, hasAudio |-> TRUE,
   qualityLabel |-> Undefined, quality |-> <<"t","i","n","y">>,
   audioQuality |-> <<"M","E","D","I","U","M">>, mimeType |-> <<"a","u","d","i","o","/","m","p","4">>,
   container |-> <<"m","p","4">>, contentLength |-> <<"5","0">>, codecs |-> <<"m","p","4","a">>]

F6 ==
  [url |-> <<"u","6">>, hasVideo |-> FALSE, hasAudio |-> TRUE,
   qualityLabel |-> Undefined, quality |-> <<"t","i","n","y">>,
   audioQuality |-> Undefined, mimeType |-> <<"a","u","d","i","o","/","w","e","b","m">>,
   container |-> <<"w","e","b","m">>, contentLength |-> <<"4","0">>, codecs |-> <<"o","p","u","s">>]

F7 ==
  [url |-> <<"u","7">>, hasVideo |-> TRUE, hasAudio |-> TRUE,
   qualityLabel |-> <<"1","4","4","p">>, quality |-> <<"s","m","a","l","l">>,
   audioQuality |-> <<"L","O","W">>, mimeType |-> <<"v","i","d","e","o","/","t","s">>,
   container |-> <<"t","s">>, contentLength |-> <<"2","0">>, codecs |-> <<"H",".","2","6","4">>]

F8 ==
  [url |-> <<"u","8">>, hasVideo |-> TRUE, hasAudio |-> FALSE,
   qualityLabel |-> Undefined, quality |-> <<"h","d","7","2","0">>,
   audioQuality |-> Undefined, mimeType |-> Undefined,
   container |-> <<"m","p","4">>, contentLength |-> Undefined, codecs |-> Undefined]

F9 ==
  [url |-> <<"u","9">>, hasVideo |-> FALSE, hasAudio |-> TRUE,
   qualityLabel |-> Undefined, quality |-> Undefined,
   audioQuality |-> <<"L","O","W">>, mimeType |-> Undefined,
   container |-> <<"w","e","b","m">>, contentLength |-> Undefined, codecs |-> <<"o","p","u","s">>]

F10 ==
  [url |-> <<"u","1","0">>, hasVideo |-> TRUE, hasAudio |-> FALSE,
   qualityLabel |-> <<"3","6","0","p">>, quality |-> <<"m","e","d","i","u","m">>,
   audioQuality |-> Undefined, mimeType |-> <<"v","i","d","e","o","/","w","e","b","m",";"," ","m","p","4","a">>,
   container |-> <<"w","e","b","m">>, contentLength |-> <<"3","0","0">>, codecs |-> <<"v","p","9">>]

MsgUnavailable == <<"V","i","d","e","o"," ","u","n","a","v","a","i","l","a","b","l","e">>
MsgSignIn == <<"S","i","g","n"," ","i","n"," ","t","o"," ","c","o","n","f","i","r","m"," ","y","o","u","r"," ","a","g","e">>
MsgBoth == <<"V","i","d","e","o"," ","u","n","a","v","a","i","l","a","b","l","e","."," ","S","i","g","n"," ","i","n"," ","t","o"," ","c","o","n","f","i","r","m">>
MsgOther == <<"S","t","a","t","u","s"," ","c","o","d","e",":"," ","4","1","0">>

Formats == {F1, F2, F3, F4, F5, F6, F7, F8, F9, F10}
ErrorMessages == {MsgUnavailable, MsgSignIn, MsgBoth, MsgOther}

\* format lists without repetition, at most n long
RECURSIVE ListsUpTo(_)
ListsUpTo(n) ==
  IF n = 0 THEN {<<>>}
  ELSE LET prev == ListsUpTo(n - 1)
       IN prev \cup {Append(l, f) : l \in {p \in prev : Len(p) = n - 1},
                                     f \in Formats}

FormatLists ==
  {l \in ListsUpTo(MaxFormats) : \A a, b \in 1..Len(l) : a # b => l[a] # l[b]}

Thumb1 == <<"t","1">>
Thumb2 == <<"t","2">>
DetailsFull ==
  [title |-> <<"T">>, description |-> <<"D">>, lengthSeconds |-> <<"6","0">>,
   viewCount |-> <<"5">>,
   author |-> [defined |-> TRUE, name |-> <<"A">>],
   thumbnails |-> [defined |-> TRUE, items |-> <<Thumb1, Thumb2>>],
   publishDate |-> <<"P">>, category |-> <<"C">>, keywords |-> <<"K">>,
   isLiveContent |-> FALSE, age_restricted |-> FALSE, videoId |-> <<"I">>]
DetailsNoThumbList ==
  [DetailsFull EXCEPT !.thumbnails = [defined |-> FALSE, items |-> <<>>]]
DetailsEmptyThumbs ==
  [DetailsFull EXCEPT !.thumbnails = [defined |-> TRUE, items |-> <<>>]]
DetailsNoAuthor ==
  [DetailsFull EXCEPT !.author = [defined |-> FALSE, name |-> Undefined]]
DetailsNoAuthorName ==
  [DetailsFull EXCEPT !.author = [defined |-> TRUE, name |-> Undefined]]
DetailsNoDescription == [DetailsFull EXCEPT !.description = Undefined]

DetailsSet ==
  {DetailsFull, DetailsNoThumbList, DetailsEmptyThumbs, DetailsNoAuthor,
   DetailsNoAuthorName, DetailsNoDescription}

\* what getInfo can resolve with, for the format classifier
FmtInfos ==
  [videoDetails : DetailsSet,
   formats : [defined : {TRUE}, items : FormatLists]
              \cup {[defined |-> FALSE, items |-> <<>>]}]

\* what getInfo resolves with in the request handlers
SampleInfos ==
  {[videoDetails |-> DetailsFull, formats |-> [defined |-> TRUE, items |-> <<F5, F4, F2>>]],
   [videoDetails |-> DetailsFull, formats |-> [defined |-> TRUE, items |-> <<>>]],
   [videoDetails |-> DetailsFull, formats |-> [defined |-> FALSE, items |-> <<>>]],
   [videoDetails |-> DetailsNoThumbList, formats |-> [defined |-> TRUE, items |-> <<F1>>]],
   [videoDetails |-> DetailsNoAuthor, formats |-> [defined |-> TRUE, items |-> <<F2, F1>>]]}

NoInfo == [videoDetails |-> DetailsFull, formats |-> [defined |-> FALSE, items |-> <<>>]]

\* a video of a yt-search result
Video(k) ==
  [videoId |-> k, title |-> k, description |-> k, duration |-> [timestamp |-> k],
   views |-> k, uploaded |-> k, thumbnail |-> k, author |-> [name |-> k], url |-> k]

VideosOf(n) == [k \in 1..n |-> Video(k)]

\* query-string values
UrlV == <<"V">>
UrlX == <<"X">>
UrlValues == {Undefined, <<>>, UrlV, UrlX}
QValues == {Undefined, <<>>, <<"t">>}
LimitValues == {Undefined, <<"0">>, <<"2">>, <<"1","2">>, <<"-","1">>, <<"x">>}
UrlsAlphabet == {"V", "X", ",", " "}

RECURSIVE StringsUpTo(_)
StringsUpTo(n) ==
  IF n = 0 THEN {<<>>}
  ELSE LET prev == StringsUpTo(n - 1)
       IN prev \cup {Append(s, c) : s \in {p \in prev : Len(p) = n - 1},
                                     c \in UrlsAlphabet}

UrlsValues == {Undefined} \cup StringsUpTo(MaxUrlsLen)

\* ytdl.validateURL: the external validator accepts exactly the URL "V"
validateURL(url) == url = UrlV

\* ------------------------------------------------------------------------
\* State
\* ------------------------------------------------------------------------
VARIABLES
  pc,         \* where the handler of the request in progress stands
  req,        \* the request: [snap, route, arg, limit]
  urlArray,   \* /bulk-extract: urls.split(',').map(trim)
  idx,        \* /bulk-extract: position of the for-of loop in urlArray
  results,    \* /bulk-extract: the results array
  calls,      \* the calls made to ytdl-core and yt-search, in order
  settled,    \* what the awaited calls settled with, in order
  formatted,  \* value or exception of the last formatVideoData call
  res         \* the response sent

vars == <<pc, req, urlArray, idx, results, calls, settled, formatted, res>>

NoRes == [status |-> 0, body |-> [none |-> TRUE]]
NoReq == [snap |-> "none", route |-> "none", arg |-> Undefined, limit |-> Undefined]
NotFormatted == Threw(<<>>)

Call(op, arg, out) == [op |-> op, arg |-> arg, out |-> out]
Reply(status, body) == [status |-> status, body |-> body]
Resolved(info) == [resolved |-> TRUE, info |-> info, message |-> <<>>]
Rejected(message) == [resolved |-> FALSE, info |-> NoInfo, message |-> message]

Init ==
  /\ pc = "idle"
  /\ req = NoReq
  /\ urlArray = <<>>
  /\ idx = 0
  /\ results = <<>>
  /\ calls = <<>>
  /\ settled = <<>>
  /\ formatted = NotFormatted
  /\ res = NoRes

Snaps == {"idx", "p0"}

NewRequest(snap, route, arg, limit) ==
  [snap |-> snap, route |-> route, arg |-> arg, limit |-> limit]

\* the response is sent and the handler ends
Respond(r) ==
  /\ res' = r
  /\ pc' = "done"

\* ------------------------------------------------------------------------
\* GET /extract and GET /details: the checks before the await
\* ------------------------------------------------------------------------
\* if (!url) return 400;  if (!ytdl.validateURL(url)) return 400;
\* the same without the `if (!url)` test
urlCheckNoMissing(url) == IF ~validateURL(url) THEN "invalid" ELSE "fetch"

\* the same without the `if (!ytdl.validateURL(url))` test
urlCheckNoValidate(url) == IF ~Truthy(url) THEN "missing" ELSE "fetch"

urlCheck(url) ==
  IF ~Truthy(url) THEN "missing"
  ELSE IF ~validateURL(url) THEN "invalid"
  ELSE "fetch"

\* the synchronous start of the /extract and /details handlers
UrlRequest(snap, route, url, awaiting) ==
  /\ pc = "idle"
  /\ req' = NewRequest(snap, route, url, Undefined)
  /\ UNCHANGED <<urlArray, idx, results, settled, formatted>>
  /\ CASE urlCheck(url) = "missing" ->
            /\ Respond(Reply(400, [error |-> "URL parameter is required"]))
            /\ UNCHANGED calls
       [] urlCheck(url) = "invalid" ->
            /\ Respond(Reply(400, [error |-> "Invalid YouTube URL"]))
            /\ calls' = Append(calls, Call("validateURL", url, "false"))
       [] urlCheck(url) = "fetch" ->
            /\ calls' = calls \o <<Call("validateURL", url, "true"),
                                   Call("getInfo", url, "pending")>>
            /\ pc' = awaiting
            /\ UNCHANGED res

ExtractRequest(snap, url) == UrlRequest(snap, "extract", url, "extract_await")

DetailsRequest(snap, url) == UrlRequest(snap, "details", url, "details_await")

\* ------------------------------------------------------------------------
\* GET /extract after the await
\* ------------------------------------------------------------------------
\* part_000: the catch around getInfo
ytdlErrorReply(message) ==
  IF Includes(message, VideoUnavailable)
  THEN Reply(404, [error |-> "Video not found or unavailable"])
  ELSE IF Includes(message, SignInToConfirm)
  THEN Reply(403, [error |-> "Age-restricted content"])
  ELSE Reply(500, [error |-> "Failed to fetch video information from YouTube",
                   technical |-> message])

\* index.js: the catch around the whole handler
extractCatchIdx(message) ==
  IF Includes(message, VideoUnavailable)
  THEN Reply(404, [error |-> "Video not found or unavailable"])
  ELSE Reply(500, [error |-> "Failed to extract video information",
                   details |-> message])

\* part_000: from `const formats = videoInfo.formats` to the end
extractFormatP0(videoInfo) ==
  IF ~videoInfo.formats.defined \/ Len(videoInfo.formats.items) = 0
  THEN NotFormatted
  ELSE formatVideoData(videoInfo, videoInfo.formats)

extractReplyP0(videoInfo) ==
  LET formats == videoInfo.formats
      formattedData == extractFormatP0(videoInfo)
  IN IF ~formats.defined \/ Len(formats.items) = 0
     THEN Reply(500, [error |-> "No downloadable formats available"])
     ELSE IF formattedData.threw
     THEN Reply(500, [error |-> "Internal server error",
                      message |-> formattedData.message])
     ELSE Reply(200, formattedData.value)

\* index.js: from `const formats = videoInfo.formats` to the end
extractReplyIdx(videoInfo) ==
  LET formattedData == formatVideoDataIdx(videoInfo, videoInfo.formats)
  IN IF formattedData.threw THEN extractCatchIdx(formattedData.message)
     ELSE Reply(200, formattedData.value)

Settle(op, outcome) ==
  /\ calls' = Append(calls, Call(op, calls[Len(calls)].arg,
                                 IF outcome.resolved THEN "resolved" ELSE "rejected"))
  /\ settled' = Append(settled, outcome)

ExtractResolved(videoInfo) ==
  /\ pc = "extract_await"
  /\ Settle("getInfo.settled", Resolved(videoInfo))
  /\ formatted' = IF req.snap = "p0" THEN extractFormatP0(videoInfo)
                  ELSE formatVideoDataIdx(videoInfo, videoInfo.formats)
  /\ Respond(IF req.snap = "p0" THEN extractReplyP0(videoInfo)
             ELSE extractReplyIdx(videoInfo))
  /\ UNCHANGED <<req, urlArray, idx, results>>

ExtractRejected(message) ==
  /\ pc = "extract_await"
  /\ Settle("getInfo.settled", Rejected(message))
  /\ Respond(IF req.snap = "p0" THEN ytdlErrorReply(message)
             ELSE extractCatchIdx(message))
  /\ UNCHANGED <<req, urlArray, idx, results, formatted>>

\* ------------------------------------------------------------------------
\* GET /details after the await
\* ------------------------------------------------------------------------
detailsCatch(message) ==
  Reply(500, [error |-> "Failed to get video details", details |-> message])

\* author.name and thumbnails[thumbnails.length - 1].url are read unguarded
detailsThrows(videoInfo) ==
  \/ ~videoInfo.videoDetails.author.defined
  \/ ~videoInfo.videoDetails.thumbnails.defined
  \/ videoInfo.videoDetails.thumbnails.items = <<>>

detailsReplyIdx(videoInfo) ==
  LET d == videoInfo.videoDetails
  IN IF detailsThrows(videoInfo) THEN detailsCatch(MsgTypeError)
     ELSE Reply(200,
       [title |-> d.title, description |-> d.description,
        lengthSeconds |-> d.lengthSeconds, author |-> d.author.name,
        thumbnail |-> d.thumbnails.items[Len(d.thumbnails.items)],
        viewCount |-> d.viewCount, publishDate |-> d.publishDate,
        category |-> d.category, keywords |-> d.keywords,
        isLive |-> d.isLiveContent])

detailsReplyP0(videoInfo) ==
  LET d == videoInfo.videoDetails
  IN IF detailsThrows(videoInfo) THEN detailsCatch(MsgTypeError)
     ELSE Reply(200,
       [title |-> d.title, description |-> d.description,
        lengthSeconds |-> d.lengthSeconds, author |-> d.author.name,
        thumbnail |-> d.thumbnails.items[Len(d.thumbnails.items)],
        viewCount |-> d.viewCount, publishDate |-> d.publishDate,
        category |-> d.category, keywords |-> d.keywords,
        isLive |-> d.isLiveContent, isAgeRestricted |-> d.age_restricted,
        videoId |-> d.videoId])

DetailsResolved(videoInfo) ==
  /\ pc = "details_await"
  /\ Settle("getInfo.settled", Resolved(videoInfo))
  /\ Respond(IF req.snap = "p0" THEN detailsReplyP0(videoInfo)
             ELSE detailsReplyIdx(videoInfo))
  /\ UNCHANGED <<req, urlArray, idx, results, formatted>>

DetailsRejected(message) ==
  /\ pc = "details_await"
  /\ Settle("getInfo.settled", Rejected(message))
  /\ Respond(detailsCatch(message))
  /\ UNCHANGED <<req, urlArray, idx, results, formatted>>

\* ------------------------------------------------------------------------
\* GET /search
\* ------------------------------------------------------------------------
SearchRequest(snap, q, limit) ==
  /\ pc = "idle"
  /\ req' = NewRequest(snap, "search", q, limit)
  /\ UNCHANGED <<urlArray, idx, results, settled, formatted>>
  /\ IF ~Truthy(q)
     THEN /\ Respond(Reply(400, [error |-> "Query parameter \"q\" is required"]))
          /\ UNCHANGED calls
     ELSE /\ calls' = Append(calls, Call("ytSearch", q, "pending"))
          /\ pc' = "search_await"
          /\ UNCHANGED res

RECURSIVE MapVideos(_)
MapVideos(videos) ==
  IF videos = <<>> THEN <<>>
  ELSE LET video == Head(videos)
       IN <<[videoId |-> video.videoId, title |-> video.title,
             description |-> video.description,
             duration |-> video.duration.timestamp, views |-> video.views,
             uploaded |-> video.uploaded, thumbnail |-> video.thumbnail,
             author |-> video.author.name, url |-> video.url]>>
          \o MapVideos(Tail(videos))

\* part_000: const { q, limit = 10 } = req.query; slice(0, parseInt(limit))
searchReplyP0(q, limit, searchResults) ==
  LET lim == IF limit = Undefined THEN TenStr ELSE limit
      videos == MapVideos(SliceTo(searchResults.videos, parseInt(lim)))
  IN Reply(200, [query |-> q, results |-> videos, total |-> Len(videos)])

\* index.js: every video is returned, and there is no `total`
searchReplyIdx(q, limit, searchResults) ==
  Reply(200, [query |-> q, results |-> MapVideos(searchResults.videos)])

SearchResolved(searchResults) ==
  /\ pc = "search_await"
  /\ Settle("ytSearch.settled", Resolved(searchResults))
  /\ Respond(IF req.snap = "p0" THEN searchReplyP0(req.arg, req.limit, searchResults)
             ELSE searchReplyIdx(req.arg, req.limit, searchResults))
  /\ UNCHANGED <<req, urlArray, idx, results, formatted>>

SearchRejected(message) ==
  /\ pc = "search_await"
  /\ Settle("ytSearch.settled", Rejected(message))
  /\ Respond(Reply(500, [error |-> "Search failed", details |-> message]))
  /\ UNCHANGED <<req, urlArray, idx, results, formatted>>

\* ------------------------------------------------------------------------
\* GET /bulk-extract (part_000 only)
\* ------------------------------------------------------------------------
\* String.prototype.split(',')
RECURSIVE Split(_)
Split(s) ==
  IF \A k \in 1..Len(s) : s[k] # "," THEN <<s>>
  ELSE LET c == CHOOSE k \in 1..Len(s) :
                  s[k] = "," /\ \A j \in 1..(k - 1) : s[j] # ","
       IN <<SubSeq(s, 1, c - 1)>> \o Split(SubSeq(s, c + 1, Len(s)))

\* String.prototype.trim
RECURSIVE Trim(_)
Trim(s) ==
  IF s = <<>> THEN s
  ELSE IF s[1] = " " THEN Trim(Tail(s))
  ELSE IF s[Len(s)] = " " THEN Trim(SubSeq(s, 1, Len(s) - 1))
  ELSE s

\* urls.split(',').map(url => url.trim())
SplitAndTrim(urls) ==
  LET parts == Split(urls) IN [k \in 1..Len(parts) |-> Trim(parts[k])]

EntrySuccess(url, data) ==
  [url |-> url, status |-> "success", data |-> data, error |-> <<>>]
EntryError(url, message) ==
  [url |-> url, status |-> "error", data |-> [none |-> TRUE], error |-> message]

InvalidYouTubeURL == <<"I","n","v","a","l","i","d"," ","U","R","L">>

\* The for-of loop from position i up to its next await or its end: URLs
\* that fail validateURL get their error entry at once; a URL that passes
\* starts getInfo and suspends the handler.
\* a loop that ends at the first URL failing validateURL
RECURSIVE bulkLoopAbort(_, _, _, _)
bulkLoopAbort(arr, i, rs, cs) ==
  IF i > Len(arr) THEN [pc |-> "bulk_reply", idx |-> i, results |-> rs, calls |-> cs]
  ELSE IF validateURL(arr[i])
  THEN [pc |-> "bulk_await", idx |-> i, results |-> rs,
        calls |-> cs \o <<Call("validateURL", arr[i], "true"),
                          Call("getInfo", arr[i], "pending")>>]
  ELSE [pc |-> "bulk_reply", idx |-> i,
        results |-> Append(rs, EntryError(arr[i], InvalidYouTubeURL)),
        calls |-> Append(cs, Call("validateURL", arr[i], "false"))]

\* a loop that starts getInfo without awaiting it
RECURSIVE bulkLoopNoAwait(_, _, _, _)
bulkLoopNoAwait(arr, i, rs, cs) ==
  IF i > Len(arr) THEN [pc |-> "bulk_reply", idx |-> i, results |-> rs, calls |-> cs]
  ELSE IF validateURL(arr[i])
  THEN LET rest == bulkLoopNoAwait(arr, i + 1, rs,
                     cs \o <<Call("validateURL", arr[i], "true"),
                             Call("getInfo", arr[i], "pending")>>)
       IN [rest EXCEPT !.pc = "bulk_await", !.idx = i]
  ELSE bulkLoopNoAwait(arr, i + 1,
                       Append(rs, EntryError(arr[i], InvalidYouTubeURL)),
                       Append(cs, Call("validateURL", arr[i], "false")))

\* the loop of part_000
RECURSIVE bulkLoop(_, _, _, _)
bulkLoop(arr, i, rs, cs) ==
  IF i > Len(arr) THEN [pc |-> "bulk_reply", idx |-> i, results |-> rs, calls |-> cs]
  ELSE IF validateURL(arr[i])
  THEN [pc |-> "bulk_await", idx |-> i, results |-> rs,
        calls |-> cs \o <<Call("validateURL", arr[i], "true"),
                          Call("getInfo", arr[i], "pending")>>]
  ELSE bulkLoop(arr, i + 1,
                Append(rs, EntryError(arr[i], InvalidYouTubeURL)),
                Append(cs, Call("validateURL", arr[i], "false")))

CountStatus(rs, status) == Len(SelectSeq(rs, LAMBDA r : r.status = status))

\* res.json({ total, successful, failed, results })
bulkReply(arr, rs) ==
  Reply(200, [total |-> Len(arr),
              successful |-> CountStatus(rs, "success"),
              failed |-> CountStatus(rs, "error"),
              results |-> rs])

\* the loop runs on from position i; the response is sent when it ends
BulkContinue(arr, i, rs, cs) ==
  LET l == bulkLoop(arr, i, rs, cs)
  IN /\ idx' = l.idx
     /\ results' = l.results
     /\ calls' = l.calls
     /\ IF l.pc = "bulk_reply"
        THEN Respond(bulkReply(arr, l.results))
        ELSE pc' = l.pc /\ UNCHANGED res

BulkRequest(urls) ==
  /\ pc = "idle"
  /\ req' = NewRequest("p0", "bulk-extract", urls, Undefined)
  /\ UNCHANGED <<settled, formatted>>
  /\ IF ~Truthy(urls)
     THEN /\ Respond(Reply(400, [error |-> "URLs parameter is required"]))
          /\ UNCHANGED <<urlArray, idx, results, calls>>
     ELSE /\ urlArray' = SplitAndTrim(urls)
          /\ BulkContinue(SplitAndTrim(urls), 1, <<>>, calls)

\* getInfo resolved: formatVideoData, push the entry, go on with the loop
BulkResolved(videoInfo) ==
  /\ pc = "bulk_await"
  /\ settled' = Append(settled, Resolved(videoInfo))
  /\ LET url == urlArray[idx]
         formattedData == formatVideoData(videoInfo, videoInfo.formats)
         entry == IF formattedData.threw
                  THEN EntryError(url, formattedData.message)
                  ELSE EntrySuccess(url, formattedData.value)
     IN /\ formatted' = formattedData
        /\ BulkContinue(urlArray, idx + 1, Append(results, entry),
                        Append(calls, Call("getInfo.settled", url, "resolved")))
  /\ UNCHANGED <<req, urlArray>>

\* getInfo rejected: the catch pushes an error entry, the loop goes on
BulkRejected(message) ==
  /\ pc = "bulk_await"
  /\ settled' = Append(settled, Rejected(message))
  /\ BulkContinue(urlArray, idx + 1,
                  Append(results, EntryError(urlArray[idx], message)),
                  Append(calls, Call("getInfo.settled", urlArray[idx], "rejected")))
  /\ UNCHANGED <<req, urlArray, formatted>>

\* ------------------------------------------------------------------------
\* The next request
\* ------------------------------------------------------------------------
\* Handlers keep no state between requests: every name above is a local of
\* one invocation, so the next request starts from the initial state.
NextRequest ==
  /\ pc = "done"
  /\ pc' = "idle"
  /\ req' = NoReq
  /\ urlArray' = <<>>
  /\ idx' = 0
  /\ results' = <<>>
  /\ calls' = <<>>
  /\ settled' = <<>>
  /\ formatted' = NotFormatted
  /\ res' = NoRes

Next ==
  \/ \E snap \in Snaps, url \in UrlValues : ExtractRequest(snap, url)
  \/ \E videoInfo \in SampleInfos : ExtractResolved(videoInfo)
  \/ \E message \in ErrorMessages : ExtractRejected(message)
  \/ \E snap \in Snaps, url \in UrlValues : DetailsRequest(snap, url)
  \/ \E videoInfo \in SampleInfos : DetailsResolved(videoInfo)
  \/ \E message \in ErrorMessages : DetailsRejected(message)
  \/ \E snap \in Snaps, q \in QValues, limit \in LimitValues :
        SearchRequest(snap, q, limit)
  \/ \E n \in 0..MaxVideos : SearchResolved([videos |-> VideosOf(n)])
  \/ \E message \in ErrorMessages : SearchRejected(message)
  \/ \E urls \in UrlsValues : BulkRequest(urls)
  \/ \E videoInfo \in SampleInfos : BulkResolved(videoInfo)
  \/ \E message \in ErrorMessages : BulkRejected(message)
  \/ NextRequest

Spec == Init /\ [][Next]_vars

\* ------------------------------------------------------------------------
\* formatVideoData on its own: every format list and metadata record
\* ------------------------------------------------------------------------
FmtInit ==
  /\ pc = "format"
  /\ req \in {NewRequest(snap, "format", Undefined, Undefined) : snap \in Snaps}
  /\ urlArray = <<>>
  /\ idx = 0
  /\ results = <<>>
  /\ calls = <<>>
  /\ settled \in {<<Resolved(videoInfo)>> : videoInfo \in FmtInfos}
  /\ formatted = NotFormatted
  /\ res = NoRes

FormatP0 ==
  /\ pc = "format"
  /\ req.snap = "p0"
  /\ formatted' = formatVideoData(settled[1].info, settled[1].info.formats)
  /\ pc' = "formatted"
  /\ UNCHANGED <<req, urlArray, idx, results, calls, settled, res>>

FormatIdx ==
  /\ pc = "format"
  /\ req.snap = "idx"
  /\ formatted' = formatVideoDataIdx(settled[1].info, settled[1].info.formats)
  /\ pc' = "formatted"
  /\ UNCHANGED <<req, urlArray, idx, results, calls, settled, res>>

FmtNext == FormatP0 \/ FormatIdx

FmtSpec == FmtInit /\ [][FmtNext]_vars

\* ========================================================================
\* Properties
\* ========================================================================
Done(route) == pc = "done" /\ req.route = route

CountOp(cs, op) == Len(SelectSeq(cs, LAMBDA c : c.op = op))

\* the comma-separated pieces of a query string, read off the positions of
\* its commas
CommaPositions(s) == {i \in 1..Len(s) : s[i] = ","}
NthComma(s, k) ==
  CHOOSE i \in CommaPositions(s) :
    Cardinality({j \in CommaPositions(s) : j <= i}) = k
PieceOf(s, k) ==
  LET n == Cardinality(CommaPositions(s))
      first == IF k = 1 THEN 1 ELSE NthComma(s, k - 1) + 1
      last == IF k = n + 1 THEN Len(s) ELSE NthComma(s, k) - 1
  IN SubSeq(s, first, last)
IsTrimOf(t, p) ==
  /\ t = <<>> \/ (t[1] # " " /\ t[Len(t)] # " ")
  /\ \E a \in 0..Len(p) : \E b \in 0..(Len(p) - a) :
       /\ SubSeq(p, a + 1, Len(p) - b) = t
       /\ \A i \in (1..a) \cup ((Len(p) - b + 1)..Len(p)) : p[i] = " "

\* the number of URLs among the first k of the batch that pass validateURL
ValidUpTo(arr, k) == Cardinality({j \in 1..k : validateURL(arr[j])})

\* C1: a /bulk-extract request with a non-empty `urls` is never aborted: it
\* is answered with the batch object, whose results hold one entry per
\* comma-separated URL in input order, an entry being 'success' exactly when
\* its URL validated and its getInfo and formatVideoData did not throw, and
\* total = number of URLs = successful + failed.
C1_BulkNeverAborts ==
  (Done("bulk-extract") /\ Truthy(req.arg)) =>
    LET n == Cardinality(CommaPositions(req.arg)) + 1
        rs == res.body.results
    IN /\ res.status = 200
       /\ Len(rs) = n
       /\ res.body.total = n
       /\ res.body.total = res.body.successful + res.body.failed
       /\ \A k \in 1..n :
            /\ IsTrimOf(rs[k].url, PieceOf(req.arg, k))
            /\ rs[k].status \in {"success", "error"}
            /\ rs[k].status = "success" <=>
                 /\ validateURL(rs[k].url)
                 /\ LET o == settled[ValidUpTo(urlArray, k)]
                    IN o.resolved /\ ~formatVideoData(o.info, o.info.formats).threw

C1_Witness ==
  /\ Done("bulk-extract")
  /\ res.status = 200
  /\ Len(res.body.results) = 3
  /\ res.body.results[1].status = "error" /\ ~validateURL(res.body.results[1].url)
  /\ res.body.results[2].status = "error" /\ validateURL(res.body.results[2].url)
  /\ res.body.results[3].status = "success"

\* C2: within one /bulk-extract request the getInfo calls are sequential: at
\* most one is outstanding, a getInfo call is started only when every earlier
\* one has settled, and when the response is sent every URL that validated
\* has had its getInfo call, whatever the earlier ones settled with.
C2_BulkSequential ==
  req.route = "bulk-extract" =>
    /\ CountOp(calls, "getInfo") - CountOp(calls, "getInfo.settled") \in {0, 1}
    /\ \A k \in 1..Len(calls) :
         calls[k].op = "getInfo" =>
           CountOp(SubSeq(calls, 1, k - 1), "getInfo")
             = CountOp(SubSeq(calls, 1, k - 1), "getInfo.settled")
    /\ pc = "bulk_await" <=>
         CountOp(calls, "getInfo") = CountOp(calls, "getInfo.settled") + 1
    /\ (pc = "done" /\ Truthy(req.arg)) =>
         /\ CountOp(calls, "getInfo") = ValidUpTo(urlArray, Len(urlArray))
         /\ CountOp(calls, "getInfo.settled") = CountOp(calls, "getInfo")

C2_Witness ==
  /\ Done("bulk-extract")
  /\ CountOp(calls, "getInfo") = 3
  /\ ~settled[1].resolved
  /\ settled[2].resolved

\* C3: a request without its URL parameter (`url` on /extract and /details,
\* `urls` on /bulk-extract) is answered 400 and makes no external call.
C3_MissingParam400 ==
  (pc = "done" /\ req.route \in {"extract", "details", "bulk-extract"}
     /\ req.arg = Undefined) =>
    (res.status = 400 /\ calls = <<>>)

C3_Witness ==
  /\ Done("details")
  /\ req.arg = Undefined
  /\ res.status = 400
  /\ calls = <<>>

\* C4: a URL that fails validateURL is answered 400 on /extract and /details
\* without any getInfo call, and every getInfo call comes after a validateURL
\* call on the same URL that returned true.
C4_ValidateBeforeGetInfo ==
  /\ (pc = "done" /\ req.route \in {"extract", "details"}
        /\ Truthy(req.arg) /\ ~validateURL(req.arg)) =>
       (res.status = 400 /\ CountOp(calls, "getInfo") = 0)
  /\ \A k \in 1..Len(calls) :
       calls[k].op = "getInfo" =>
         \E j \in 1..(k - 1) :
           calls[j] = Call("validateURL", calls[k].arg, "true")

C4_Witness ==
  /\ Done("extract")
  /\ req.arg = UrlX
  /\ res.status = 400
  /\ calls = <<Call("validateURL", UrlX, "false")>>

\* C5: on /extract with a valid URL, when getInfo throws, the status follows
\* the error message: 404 if it contains "Video unavailable", else 403 if it
\* contains "Sign in to confirm", else 500; getInfo is called exactly once.
C5_ExtractErrorStatus ==
  (Done("extract") /\ settled # <<>> /\ ~settled[1].resolved) =>
    /\ res.status = IF Includes(settled[1].message, VideoUnavailable) THEN 404
                    ELSE IF Includes(settled[1].message, SignInToConfirm) THEN 403
                    ELSE 500
    /\ CountOp(calls, "getInfo") = 1

\* C6: on /extract, when getInfo succeeds with an empty or absent format
\* list, the response is status 500, never a success.
C6_EmptyFormats500 ==
  (Done("extract") /\ settled # <<>> /\ settled[1].resolved
     /\ (~settled[1].info.formats.defined \/ settled[1].info.formats.items = <<>>)) =>
    res.status = 500

\* C7: on /search with `q` present, limit L (10 when omitted) and n videos
\* found, `results` is the first min(L, n) videos in the search client's
\* order and `total` is the number of entries of `results`.
C7_SearchLimit ==
  (Done("search") /\ settled # <<>> /\ settled[1].resolved
     /\ (req.limit = Undefined
           \/ (~parseInt(req.limit).nan /\ parseInt(req.limit).val >= 0))) =>
    LET L == IF req.limit = Undefined THEN 10 ELSE parseInt(req.limit).val
        found == settled[1].info.videos
        m == IF L < Len(found) THEN L ELSE Len(found)
    IN /\ res.status = 200
       /\ Len(res.body.results) = m
       /\ \A k \in 1..m : res.body.results[k].videoId = found[k].videoId
       /\ "total" \in DOMAIN res.body
       /\ res.body.total = Len(res.body.results)

\* ------------------------------------------------------------------------
\* formatVideoData (FmtSpec)
\* ------------------------------------------------------------------------
InputInfo == settled[1].info
InputFormats == InputInfo.formats.items
Classified == pc = "formatted" /\ ~formatted.threw

\* how often the format with this url is listed in a group
CountUrl(group, url) == Len(SelectSeq(group, LAMBDA f : f.url = url))
VideoCount(url) ==
  CountUrl(formatted.value.format_options.video.mp4, url)
    + CountUrl(formatted.value.format_options.video.webm, url)
AudioCount(url) ==
  CountUrl(formatted.value.format_options.audio.mp3, url)
    + CountUrl(formatted.value.format_options.audio.webm, url)

NamesNeitherContainer(f) ==
  /\ f.container \notin {Mp4, Webm}
  /\ ~OptIncludes(f.mimeType, Mp4)
  /\ ~OptIncludes(f.mimeType, Webm)

\* C8 as claimed: every video-capable format is listed exactly once under
\* format_options.video and never under audio, every audio-only format
\* exactly once under format_options.audio and never under video.
C8_ExactlyOnce ==
  Classified =>
    \A k \in 1..Len(InputFormats) :
      LET f == InputFormats[k]
      IN /\ f.hasVideo => (VideoCount(f.url) = 1 /\ AudioCount(f.url) = 0)
         /\ (f.hasAudio /\ ~f.hasVideo) =>
              (AudioCount(f.url) = 1 /\ VideoCount(f.url) = 0)

\* C8 amended: a format is only ever listed under the kind matching its
\* capability flags (video-capable: video, audio-only: audio), at most once
\* in each container group of that kind: once in the mp4 group when its
\* container is mp4, once in the webm group when its container is webm, and
\* nowhere when neither its container nor its mime type names mp4 or webm.
C8_KindMatchesFlags ==
  Classified =>
    \A k \in 1..Len(InputFormats) :
      LET f == InputFormats[k]
          fo == formatted.value.format_options
          own == IF f.hasVideo THEN fo.video
                 ELSE [mp4 |-> fo.audio.mp3, webm |-> fo.audio.webm]
      IN /\ f.hasVideo => AudioCount(f.url) = 0
         /\ (f.hasAudio /\ ~f.hasVideo) => VideoCount(f.url) = 0
         /\ (f.hasVideo \/ f.hasAudio) =>
              /\ CountUrl(own.mp4, f.url) <= 1
              /\ CountUrl(own.webm, f.url) <= 1
              /\ f.container = Mp4 => CountUrl(own.mp4, f.url) = 1
              /\ f.container = Webm => CountUrl(own.webm, f.url) = 1
              /\ NamesNeitherContainer(f) =>
                   CountUrl(own.mp4, f.url) + CountUrl(own.webm, f.url) = 0

C8_Witness ==
  /\ Classified
  /\ InputFormats = <<F7, F2, F5>>
  /\ VideoCount(F7.url) = 0
  /\ VideoCount(F2.url) = 1
  /\ AudioCount(F5.url) = 1

\* C9: formatVideoData does not throw on a metadata record whose thumbnail
\* list, author or description is missing; it returns a response with the
\* defaults (author "Unknown", no image).
C9_MissingMetadataSafe ==
  (pc = "formatted" /\ InputInfo.formats.defined
     /\ \A k \in 1..Len(InputFormats) : InputFormats[k].mimeType # Undefined) =>
    /\ ~formatted.threw
    /\ ~InputInfo.videoDetails.author.defined =>
         formatted.value.author = UnknownAuthor
    /\ ~InputInfo.videoDetails.thumbnails.defined =>
         formatted.value.image = Undefined

QualityNums(group) == [k \in 1..Len(group) |-> getQualityNum(group[k].quality)]
InputPos(url) == CHOOSE k \in 1..Len(InputFormats) : InputFormats[k].url = url
VideoGroups ==
  {formatted.value.format_options.video.mp4,
   formatted.value.format_options.video.webm}

\* C10 as claimed, where the sort is implemented (part_000): within each
\* video container group an earlier entry has a larger extracted quality
\* number than a later one.
C10_StrictlyDescending ==
  (Classified /\ req.snap = "p0") =>
    \A g \in VideoGroups : \A a, b \in 1..Len(g) :
      a < b => QualityNums(g)[a] > QualityNums(g)[b]

\* C10 amended: formatVideoData of part_000 (the snapshot that sorts) lists
\* the video formats of each container group in non-increasing order of the
\* extracted quality number, and formats with equal numbers in input order.
C10_StableDescending ==
  (Classified /\ req.snap = "p0") =>
    \A g \in VideoGroups : \A a, b \in 1..Len(g) :
      a < b =>
        /\ QualityNums(g)[a] >= QualityNums(g)[b]
        /\ QualityNums(g)[a] = QualityNums(g)[b] =>
             InputPos(g[a].url) < InputPos(g[b].url)

C10_Witness ==
  /\ Classified
  /\ req.snap = "p0"
  /\ InputFormats = <<F2, F1, F3>>
  /\ formatted.value.format_options.video.mp4[1].url = F1.url
  /\ formatted.value.format_options.video.mp4[2].url = F2.url
  /\ formatted.value.format_options.video.mp4[3].url = F3.url


====
